---- MODULE Spec2Model ----
(***************************************************************************)
(* Model of api/review.js, the EthicalTruth /review endpoint.              *)
(*                                                                         *)
(* JavaScript values are represented as follows.                           *)
(*   - A string is a TLA+ string of ASCII characters. A code unit of the  *)
(*     JavaScript string that is tab, line feed, form feed, carriage       *)
(*     return or a printable ASCII character other than the backslash is   *)
(*     that character; any other code unit is the six characters of its    *)
(*     JSON escape, a backslash, u and four lower-case hexadecimal digits  *)
(*     (the no-break space U+00A0 is written "\\u00a0" in this module, the *)
(*     backslash itself "\\u005c"). Two JavaScript strings are equal       *)
(*     exactly when their TLA+ strings are.                                *)
(*   - A number is an integer, a boolean a BOOLEAN.                        *)
(*   - An array is a sequence; the empty array is <<>>.                    *)
(*   - An object with properties is a record; a property the object does   *)
(*     not have is a field the record does not have. The object with no    *)
(*     property is EmptyObject, and null is Null: two values that are      *)
(*     neither records nor sequences, so that no object and no array is    *)
(*     mistaken for them.                                                  *)
(*   - A property may hold a value of any of these types, whatever the     *)
(*     code expects there (the model clients return what JSON.parse made   *)
(*     of a model's answer). Two objects or two arrays are never the same  *)
(*     value for a Set or for includes, whatever they hold.                *)
(*   - confidenceOf's result is kept in units of 1/10000 (an integer).     *)
(*   - A function that may throw has, beside the operator for its result,  *)
(*     an operator ...Error for the set of the messages the thrown error   *)
(*     may carry, empty when the function returns. The text of a TypeError *)
(*     is the engine's: the texts are V8's, and where V8 words one throw   *)
(*     in more than one way, depending on how it has compiled the code,    *)
(*     the set holds each of them.                                         *)
(***************************************************************************)
EXTENDS Integers, Sequences, FiniteSets, TLC

(***************************************************************************)
(* Strings                                                                 *)
(***************************************************************************)

\* The white space and line terminators String.prototype.trim strips: tab,
\* line feed, vertical tab, form feed, carriage return, space, no-break
\* space, ogham space mark, en quad to hair space, line separator,
\* paragraph separator, narrow no-break space, medium mathematical space,
\* ideographic space and byte order mark.
WhiteSpace ==
  { "\t", "\n", "\\u000b", "\f", "\r", " ", "\\u00a0", "\\u1680",
    "\\u2000", "\\u2001", "\\u2002", "\\u2003", "\\u2004", "\\u2005",
    "\\u2006", "\\u2007", "\\u2008", "\\u2009", "\\u200a",
    "\\u2028", "\\u2029", "\\u202f", "\\u205f", "\\u3000", "\\ufeff" }

\* The length in the model's text of the first code unit of a string that
\* is not empty: six of an escape, one of any other.
FirstUnit(s) == IF SubSeq(s, 1, 1) = "\\" THEN 6 ELSE 1

\* The same of the last code unit.
LastUnit(s) ==
  IF Len(s) >= 6 /\ SubSeq(s, Len(s) - 5, Len(s) - 5) = "\\" THEN 6 ELSE 1

RECURSIVE TrimStart(_)
\* The string without its leading white space.
TrimStart(s) ==
  IF Len(s) = 0 THEN s
  ELSE IF SubSeq(s, 1, FirstUnit(s)) \in WhiteSpace
  THEN TrimStart(SubSeq(s, FirstUnit(s) + 1, Len(s)))
  ELSE s

RECURSIVE TrimEnd(_)
\* The string without its trailing white space.
TrimEnd(s) ==
  IF Len(s) = 0 THEN s
  ELSE IF SubSeq(s, Len(s) - LastUnit(s) + 1, Len(s)) \in WhiteSpace
  THEN TrimEnd(SubSeq(s, 1, Len(s) - LastUnit(s)))
  ELSE s

\* String.prototype.trim.
Trim(s) == TrimEnd(TrimStart(s))

\* Whether the escape u is of the first, or of the second, half of a
\* surrogate pair: U+D800 to U+DBFF, U+DC00 to U+DFFF.
HighSurrogate(u) ==
  Len(u) = 6 /\ SubSeq(u, 1, 3) = "\\ud" /\ SubSeq(u, 4, 4) \in {"8", "9", "a", "b"}

LowSurrogate(u) ==
  Len(u) = 6 /\ SubSeq(u, 1, 3) = "\\ud" /\ SubSeq(u, 4, 4) \in {"c", "d", "e", "f"}

RECURSIVE CodePoints(_)
\* What the iterator of a string gives: its code points, one string each,
\* the two halves of a surrogate pair together.
CodePoints(s) ==
  IF Len(s) = 0 THEN <<>>
  ELSE LET one == FirstUnit(s)
           n   == IF /\ HighSurrogate(SubSeq(s, 1, one))
                     /\ Len(s) >= 12
                     /\ LowSurrogate(SubSeq(s, 7, 12))
                  THEN 12 ELSE one
       IN <<SubSeq(s, 1, n)>> \o CodePoints(SubSeq(s, n + 1, Len(s)))

\* String.prototype.includes.
Includes(s, sub) ==
  \E i \in 1..(Len(s) - Len(sub) + 1) : SubSeq(s, i, i + Len(sub) - 1) = sub

(***************************************************************************)
(* Values                                                                  *)
(***************************************************************************)

\* null
Null == {"null"}

\* `{}`: an object with no property.
EmptyObject == {"object"}

\* The type of a value as typeof gives it, but "null" for null and "array"
\* for an array, read off the first character of the value's printed form.
TypeOf(v) ==
  LET c == SubSeq(ToString(v), 1, 1)
  IN CASE c = "\""           -> "string"
       [] c = "<"            -> "array"
       [] c \in {"T", "F"}   -> "boolean"
       [] c \in {"[", "("}   -> "object"
       [] c = "{"            -> IF v = Null THEN "null" ELSE "object"
       [] OTHER              -> "number"

\* Whether v counts as true in `v || d`, `v && d`, `!v` and `if(v)`.
Truthy(v) ==
  LET t == TypeOf(v)
  IN CASE t = "string"  -> v # ""
       [] t = "number"  -> v # 0
       [] t = "boolean" -> v
       [] t = "null"    -> FALSE
       [] OTHER         -> TRUE

\* Whether o.p is something: reading a property of a string, a number, a
\* boolean or an array gives undefined for the names the code reads.
Has(o, p) ==
  /\ SubSeq(ToString(o), 1, 1) \in {"[", "("}
  /\ p \in DOMAIN o

\* `o.p || d`, as for a string property p in `(o.p || "")`
StrOr(o, p, d) == IF Has(o, p) /\ Truthy(o[p]) THEN o[p] ELSE d

\* `o.p || []`
ListOr(o, p) == StrOr(o, p, <<>>)

\* Whether `(o.p || "").trim()` throws: only strings have a trim.
TrimThrows(o, p) == TypeOf(StrOr(o, p, "")) # "string"

\* Whether `for(const x of v)` and `[...v]` take v: arrays and strings.
Iterable(v) == TypeOf(v) \in {"array", "string"}

\* What they go through: the items of an array, the code points of a string.
Iterate(v) ==
  IF TypeOf(v) = "string" THEN CodePoints(v) ELSE v

\* v is the string s.
IsString(v, s) == TypeOf(v) = "string" /\ v = s

\* x and y are the same value for a Set, a Map and includes: primitives of
\* one type and one value; an object or an array is the same as itself
\* only, and no two of those a JSON text gives are the same one.
SameValueZero(x, y) ==
  LET t == TypeOf(x)
  IN /\ t = TypeOf(y)
     /\ CASE t \in {"string", "number", "boolean"} -> x = y
          [] t = "null" -> TRUE
          [] OTHER -> FALSE

\* `new Set(...).add(x)`, the set kept as the sequence of its members in
\* insertion order.
AddUnique(acc, x) ==
  IF \E i \in 1..Len(acc) : SameValueZero(acc[i], x) THEN acc ELSE Append(acc, x)

RECURSIVE Unique(_, _)
\* [...new Set(xs)]: the distinct items in order of first occurrence.
Unique(acc, xs) ==
  IF xs = <<>> THEN acc ELSE Unique(AddUnique(acc, Head(xs)), Tail(xs))

\* How V8 names a value it cannot render from the source: its typeof, and
\* the value of a primitive.
Describe(v) ==
  LET t == TypeOf(v)
  IN CASE t = "number"  -> "number " \o ToString(v)
       [] t = "boolean" -> IF v THEN "boolean true" ELSE "boolean false"
       [] t = "null"    -> "object null"
       [] OTHER         -> "object"

\* The texts of the TypeError of `for(const x of v)` for a v that cannot be
\* iterated: the interpreter's, and the one of compiled code, which calls
\* the iterator method it has not found.
NotIterableTexts(v) ==
  { Describe(v) \o " is not iterable (cannot read property Symbol(Symbol.iterator))",
    "undefined is not a function" }

RECURSIVE FirstError(_)
\* The first of a sequence of sets of messages that is not empty, or {}.
FirstError(msgs) ==
  IF msgs = <<>> THEN {}
  ELSE IF Head(msgs) # {} THEN Head(msgs) ELSE FirstError(Tail(msgs))

(***************************************************************************)
(* dedupeEvidence                                                          *)
(***************************************************************************)

\* The key of the `seen` set: `${quote.trim()}|${url.trim()}`.
EvidenceKey(e) == Trim(StrOr(e, "quote", "")) \o "|" \o Trim(StrOr(e, "url", ""))

\* The item pushed to `out`: trimmed quote and url, tier defaulting to other.
CleanEvidence(e) ==
  [quote |-> Trim(StrOr(e, "quote", "")),
   url   |-> Trim(StrOr(e, "url", "")),
   tier  |-> StrOr(e, "tier", "other")]

RECURSIVE DedupeLoop(_, _, _)
\* The for loop of dedupeEvidence over the rest of the list.
DedupeLoop(rest, seen, acc) ==
  IF rest = <<>> THEN acc
  ELSE LET e   == Head(rest)
           key == EvidenceKey(e)
       IN IF key \in seen
          THEN DedupeLoop(Tail(rest), seen, acc)
          ELSE DedupeLoop(Tail(rest), seen \cup {key}, Append(acc, CleanEvidence(e)))

\* dedupeEvidence on an array, which is what line 161 hands it.
dedupeEvidence(evs) == DedupeLoop(evs, {}, <<>>)

\* What line 142 throws on the item e, when it does.
EvidenceKeyError(e) ==
  IF TypeOf(e) = "null" THEN {"Cannot read properties of null (reading 'quote')"}
  ELSE IF TrimThrows(e, "quote") THEN {"(e.quote || \"\").trim is not a function"}
  ELSE IF TrimThrows(e, "url") THEN {"(e.url || \"\").trim is not a function"}
  ELSE {}

\* What dedupeEvidence throws: the key is made of every item in turn.
dedupeEvidenceError(evs) ==
  FirstError([i \in 1..Len(evs) |-> EvidenceKeyError(evs[i])])

(***************************************************************************)
(* mergeFindings                                                           *)
(***************************************************************************)

HIGH_TIERS == {"official", "regulator", "peerreview"}

\* The index of the bucket's cell for claim c, 0 when the Map has no such key.
CellIndex(bucket, c) ==
  IF \E i \in 1..Len(bucket) : bucket[i].claim = c
  THEN CHOOSE i \in 1..Len(bucket) : bucket[i].claim = c
  ELSE 0

\* The body of the inner loop: one finding f added to the bucket. The bucket
\* is a Map, kept here as the sequence of its cells in insertion order.
AddFinding(bucket, f) ==
  LET c    == Trim(StrOr(f, "claim", ""))
      b2   == IF CellIndex(bucket, c) = 0
              THEN Append(bucket, [claim |-> c, e |-> <<>>, s |-> <<>>])
              ELSE bucket
      i    == CellIndex(b2, c)
  IN [b2 EXCEPT ![i] = [claim |-> c,
                        e     |-> b2[i].e \o ListOr(f, "evidence"),
                        s     |-> AddUnique(b2[i].s, StrOr(f, "status", "Contested"))]]

RECURSIVE AddFindings(_, _)
\* The inner loop over the findings of one provider.
AddFindings(bucket, fs) ==
  IF fs = <<>> THEN bucket
  ELSE AddFindings(AddFinding(bucket, Head(fs)), Tail(fs))

\* One round of the outer loop: a null provider is skipped.
AddProvider(bucket, r) ==
  IF ~Truthy(r) THEN bucket
  ELSE AddFindings(bucket, Iterate(ListOr(r, "findings")))

\* What lines 152 and 155 throw on the finding f, when they do.
AddFindingError(f) ==
  IF TypeOf(f) = "null" THEN {"Cannot read properties of null (reading 'claim')"}
  ELSE IF TrimThrows(f, "claim") THEN {"(f.claim || \"\").trim is not a function"}
  ELSE IF TypeOf(ListOr(f, "evidence")) # "array"
  THEN {"(f.evidence || []).forEach is not a function"}
  ELSE {}

\* What one round of the outer loop throws: line 151 on findings that
\* cannot be iterated, or the first finding that makes the body throw.
AddProviderError(r) ==
  IF ~Truthy(r) THEN {}
  ELSE IF ~Iterable(ListOr(r, "findings")) THEN NotIterableTexts(ListOr(r, "findings"))
  ELSE LET fs == Iterate(ListOr(r, "findings"))
       IN FirstError([i \in 1..Len(fs) |-> AddFindingError(fs[i])])

\* HIGH_TIERS.has(tier)
IsHighTier(tier) == TypeOf(tier) = "string" /\ tier \in HIGH_TIERS

\* The number of items of ev whose tier is a high tier.
HighCount(ev) == Cardinality({i \in 1..Len(ev) : IsHighTier(ev[i].tier)})

\* RecomputeStatus with `cell.s.has("Supported")` alone for onlySupported.
RecomputeStatusAnySupported(high, statuses) ==
  IF high >= 2 /\ \E i \in 1..Len(statuses) : IsString(statuses[i], "Supported")
  THEN "Supported"
  ELSE IF high >= 1 THEN "Contested"
  ELSE "Rejected"

\* The three-way branch on (high, statuses), the statuses being the members
\* of the cell's Set.
RecomputeStatus(high, statuses) ==
  LET onlySupported == Len(statuses) = 1 /\ IsString(statuses[1], "Supported")
  IN IF high >= 2 /\ onlySupported THEN "Supported"
     ELSE IF high >= 1 THEN "Contested"
     ELSE "Rejected"

\* The merged finding pushed for one cell of the bucket.
MergedCell(cell) ==
  LET ev == dedupeEvidence(cell.e)
  IN [claim    |-> cell.claim,
      status   |-> RecomputeStatus(HighCount(ev), cell.s),
      evidence |-> ev]

\* const order={Supported:0,Contested:1,Rejected:2}
StatusOrder(st) ==
  CASE st = "Supported" -> 0
    [] st = "Contested" -> 1
    [] st = "Rejected"  -> 2

\* CompareFindings without the tie-break on the number of evidence items.
CompareFindingsStatusOnly(a, b) == StatusOrder(a.status) - StatusOrder(b.status)

\* CompareFindings with the tie-break the wrong way round.
CompareFindingsFewestFirst(a, b) ==
  IF StatusOrder(a.status) - StatusOrder(b.status) # 0
  THEN StatusOrder(a.status) - StatusOrder(b.status)
  ELSE Len(a.evidence) - Len(b.evidence)

\* The comparator handed to sort: negative when a goes before b.
CompareFindings(a, b) ==
  IF StatusOrder(a.status) - StatusOrder(b.status) # 0
  THEN StatusOrder(a.status) - StatusOrder(b.status)
  ELSE Len(b.evidence) - Len(a.evidence)

\* x put into the sorted sequence after every item that does not go after it.
InsertSorted(sorted, x) ==
  LET later == {i \in 1..Len(sorted) : CompareFindings(sorted[i], x) > 0}
      at    == IF later = {} THEN Len(sorted) + 1
               ELSE CHOOSE i \in later : \A j \in later : i <= j
  IN SubSeq(sorted, 1, at - 1) \o <<x>> \o SubSeq(sorted, at, Len(sorted))

RECURSIVE SortLoop(_, _)
SortLoop(sorted, rest) ==
  IF rest = <<>> THEN sorted
  ELSE SortLoop(InsertSorted(sorted, Head(rest)), Tail(rest))

\* Array.prototype.sort with CompareFindings: a stable sort.
SortFindings(fs) == SortLoop(<<>>, fs)

mergeFindings(grokRes, gptRes) ==
  LET bucket == AddProvider(AddProvider(<<>>, grokRes), gptRes)
  IN SortFindings([i \in 1..Len(bucket) |-> MergedCell(bucket[i])])

\* What mergeFindings throws: the first loop on either provider, or else
\* dedupeEvidence on the first cell of the bucket it throws on.
mergeFindingsError(grokRes, gptRes) ==
  LET first == FirstError(<<AddProviderError(grokRes), AddProviderError(gptRes)>>)
  IN IF first # {} THEN first
     ELSE LET bucket == AddProvider(AddProvider(<<>>, grokRes), gptRes)
          IN FirstError([i \in 1..Len(bucket) |-> dedupeEvidenceError(bucket[i].e)])

(***************************************************************************)
(* deriveVerdict, confidenceOf, topSources                                 *)
(***************************************************************************)

\* deriveVerdict with `every` for `some` in the Supported rule.
deriveVerdictAllSupported(m) ==
  IF m # <<>> /\ \A i \in 1..Len(m) : m[i].status = "Supported"
  THEN "Supported claims with safety basis"
  ELSE IF \A i \in 1..Len(m) : m[i].status = "Rejected"
  THEN "Inconclusive"
  ELSE "Mixed evidence; further review needed"

deriveVerdict(m) ==
  IF \E i \in 1..Len(m) : m[i].status = "Supported"
  THEN "Supported claims with safety basis"
  ELSE IF \A i \in 1..Len(m) : m[i].status = "Rejected"
  THEN "Inconclusive"
  ELSE "Mixed evidence; further review needed"

\* The number of findings of m with status st.
CountStatus(m, st) == Cardinality({i \in 1..Len(m) : m[i].status = st})

(* The arithmetic of confidenceOf is IEEE-754 double arithmetic: every      *)
(* division, product and difference is rounded to 53 significant bits, to  *)
(* nearest, ties to even, and toFixed(4) rounds the exact value of the     *)
(* double it is given. A natural number too wide for a machine integer is  *)
(* a sequence of limbs in base 2^15, lowest limb first, with no leading    *)
(* zero limb; a double is [neg, m, e], of value (-1)^neg * m * 2^e. The    *)
(* values of confidenceOf stay far from the subnormal and the overflow     *)
(* range, which are not modelled.                                          *)

Base == 2 ^ 15

RECURSIVE BigNorm(_)
BigNorm(x) ==
  IF x = <<>> THEN x
  ELSE IF x[Len(x)] = 0 THEN BigNorm(SubSeq(x, 1, Len(x) - 1)) ELSE x

RECURSIVE BigOfInt(_)
BigOfInt(n) == IF n = 0 THEN <<>> ELSE <<n % Base>> \o BigOfInt(n \div Base)

RECURSIVE BigToInt(_)
BigToInt(x) == IF x = <<>> THEN 0 ELSE x[1] + Base * BigToInt(Tail(x))

RECURSIVE BigMulSmallLoop(_, _, _)
BigMulSmallLoop(x, s, carry) ==
  IF x = <<>> THEN BigOfInt(carry)
  ELSE LET p == x[1] * s + carry
       IN <<p % Base>> \o BigMulSmallLoop(Tail(x), s, p \div Base)

\* x * s, for 0 <= s <= Base
BigMulSmall(x, s) == BigNorm(BigMulSmallLoop(x, s, 0))

RECURSIVE BigAddLoop(_, _, _)
BigAddLoop(x, y, carry) ==
  IF x = <<>> /\ y = <<>> THEN BigOfInt(carry)
  ELSE LET a == IF x = <<>> THEN 0 ELSE x[1]
           b == IF y = <<>> THEN 0 ELSE y[1]
           p == a + b + carry
       IN <<p % Base>> \o BigAddLoop(IF x = <<>> THEN x ELSE Tail(x),
                                     IF y = <<>> THEN y ELSE Tail(y),
                                     p \div Base)

BigAdd(x, y) == BigNorm(BigAddLoop(x, y, 0))

RECURSIVE BigSubLoop(_, _, _)
BigSubLoop(x, y, borrow) ==
  IF x = <<>> THEN <<>>
  ELSE LET b == IF y = <<>> THEN 0 ELSE y[1]
           p == x[1] - b - borrow
       IN <<p % Base>> \o BigSubLoop(Tail(x),
                                     IF y = <<>> THEN y ELSE Tail(y),
                                     IF p < 0 THEN 1 ELSE 0)

\* x - y, for x >= y
BigSub(x, y) == BigNorm(BigSubLoop(x, y, 0))

RECURSIVE BigCmpFrom(_, _, _)
BigCmpFrom(x, y, i) ==
  IF i = 0 THEN 0
  ELSE IF x[i] > y[i] THEN 1
  ELSE IF x[i] < y[i] THEN -1
  ELSE BigCmpFrom(x, y, i - 1)

\* 1, 0 or -1 as x is more than, equal to or less than y
BigCmp(x, y) ==
  IF Len(x) > Len(y) THEN 1
  ELSE IF Len(x) < Len(y) THEN -1
  ELSE BigCmpFrom(x, y, Len(x))

RECURSIVE BigMul(_, _)
BigMul(x, y) ==
  IF x = <<>> \/ y = <<>> THEN <<>>
  ELSE BigAdd(BigMulSmall(x, y[1]),
              LET rest == BigMul(x, Tail(y))
              IN IF rest = <<>> THEN rest ELSE <<0>> \o rest)

RECURSIVE BigDivSmallLoop(_, _, _, _)
BigDivSmallLoop(x, d, i, rem) ==
  IF i = 0 THEN [q |-> <<>>, r |-> rem]
  ELSE LET cur  == rem * Base + x[i]
           rest == BigDivSmallLoop(x, d, i - 1, cur % d)
       IN [q |-> rest.q \o <<cur \div d>>, r |-> rest.r]

\* The quotient q and the remainder r of x by d, for 0 < d <= Base
BigDivSmall(x, d) ==
  LET res == BigDivSmallLoop(x, d, Len(x), 0)
  IN [q |-> BigNorm(res.q), r |-> res.r]

RECURSIVE Zeros(_)
Zeros(n) == IF n = 0 THEN <<>> ELSE <<0>> \o Zeros(n - 1)

\* x * 2^n
BigShl(x, n) ==
  IF x = <<>> THEN x ELSE Zeros(n \div 15) \o BigMulSmall(x, 2 ^ (n % 15))

\* x \div 2^n
BigShr(x, n) ==
  IF Len(x) <= n \div 15 THEN <<>>
  ELSE BigDivSmall(SubSeq(x, n \div 15 + 1, Len(x)), 2 ^ (n % 15)).q

RECURSIVE BitLenInt(_)
BitLenInt(n) == IF n = 0 THEN 0 ELSE 1 + BitLenInt(n \div 2)

BitLen(x) ==
  IF x = <<>> THEN 0 ELSE 15 * (Len(x) - 1) + BitLenInt(x[Len(x)])

\* The limb of 1
BigOne == BigOfInt(1)

\* m * 2^e, plus something positive and below 2^e when sticky, rounded to
\* 53 significant bits, to nearest and to even on a tie.
RoundDouble(neg, m, e, sticky) ==
  LET n == BitLen(m) - 53
  IN IF n <= 0 THEN [neg |-> neg, m |-> m, e |-> e]
     ELSE LET q    == BigShr(m, n)
              low  == BigSub(m, BigShl(q, n))
              cmp  == BigCmp(low, BigShl(BigOne, n - 1))
              up   == cmp > 0 \/ (cmp = 0 /\ (sticky \/ q[1] % 2 = 1))
          IN [neg |-> neg, m |-> IF up THEN BigAdd(q, BigOne) ELSE q,
              e |-> e + n]

DoubleZero == [neg |-> FALSE, m |-> <<>>, e |-> 0]

\* The double nearest to 0.9: 8106479329266893 * 2^-53
Double09 == [neg |-> FALSE, m |-> <<19661, 6553, 13107, 230>>, e |-> 0 - 53]

\* The double nearest to 0.2: 3602879701896397 * 2^-54
Double02 == [neg |-> FALSE, m |-> <<19661, 6553, 13107, 102>>, e |-> 0 - 54]

\* a / t in doubles, for integers 0 <= a and 0 < t < Base: the quotient is
\* taken with 75 fraction bits, more than 53 significant ones, and the
\* remainder tells whether bits were lost below them.
DoubleDiv(a, t) ==
  IF a = 0 THEN DoubleZero
  ELSE LET d == BigDivSmall(BigShl(BigOfInt(a), 75), t)
       IN RoundDouble(FALSE, d.q, 0 - 75, d.r # 0)

\* x * y in doubles
DoubleMul(x, y) ==
  IF x.m = <<>> \/ y.m = <<>> THEN DoubleZero
  ELSE RoundDouble(x.neg # y.neg, BigMul(x.m, y.m), x.e + y.e, FALSE)

\* x - y in doubles, for x and y not negative
DoubleSub(x, y) ==
  LET e  == IF x.e < y.e THEN x.e ELSE y.e
      xm == BigShl(x.m, x.e - e)
      ym == BigShl(y.m, y.e - e)
  IN IF BigCmp(xm, ym) = 0 THEN DoubleZero
     ELSE IF BigCmp(xm, ym) > 0
          THEN RoundDouble(FALSE, BigSub(xm, ym), e, FALSE)
          ELSE RoundDouble(TRUE, BigSub(ym, xm), e, FALSE)

\* ToFixed4 dropping the digits after the fourth instead of rounding.
ToFixed4Truncating(c) ==
  LET s == 0 - c.e
      n == BigToInt(BigShr(BigMulSmall(c.m, 10000), s))
  IN IF c.neg THEN 0 - n ELSE n

\* +c.toFixed(4) in units of 1/10000, for a double c below 1 in magnitude:
\* toFixed takes the integer n for which n / 10^4 - |c| is as close to zero
\* as possible, the larger n if there are two, and puts the sign back.
ToFixed4(c) ==
  LET s    == 0 - c.e
      y    == BigMulSmall(c.m, 10000)
      q    == BigShr(y, s)
      low  == BigSub(y, BigShl(q, s))
      n    == IF s > 0 /\ BigCmp(low, BigShl(BigOne, s - 1)) >= 0
              THEN BigToInt(q) + 1 ELSE BigToInt(q)
  IN IF c.neg THEN 0 - n ELSE n

\* Math.max(lo, Math.min(hi, x))
Clamp(lo, hi, x) == IF x < lo THEN lo ELSE IF x > hi THEN hi ELSE x

\* Lines 180-181 for the three counts, the result in units of 1/10000, in
\* which 0.95 is 9500.
ClampedConfidence(sup, con, t) ==
  LET c == DoubleSub(DoubleMul(DoubleDiv(sup, t), Double09),
                     DoubleMul(DoubleDiv(con, t), Double02))
  IN Clamp(0, 9500, ToFixed4(c))

\* ClampedConfidence worked out once for the lists of up to 2^4 findings.
ConfidenceTable ==
  [t \in 1..(2 ^ 4) |->
    [sup \in 0..t |-> [con \in 0..(t - sup) |-> ClampedConfidence(sup, con, t)]]]

confidenceOf(m) ==
  LET t   == IF Len(m) > 1 THEN Len(m) ELSE 1
      sup == CountStatus(m, "Supported")
      con == CountStatus(m, "Contested")
  IN IF t <= 2 ^ 4 THEN ConfidenceTable[t][sup][con]
     ELSE ClampedConfidence(sup, con, t)

RECURSIVE CollectUrlsNoDistinct(_, _)
\* CollectUrls without the `!urls.includes(e.url)` test.
CollectUrlsNoDistinct(urls, ev) ==
  IF ev = <<>> THEN urls
  ELSE LET u == StrOr(Head(ev), "url", "")
       IN IF Truthy(u)
          THEN CollectUrlsNoDistinct(Append(urls, u), Tail(ev))
          ELSE CollectUrlsNoDistinct(urls, Tail(ev))

RECURSIVE CollectUrls(_, _)
\* The inner forEach over one finding's evidence.
CollectUrls(urls, ev) ==
  IF ev = <<>> THEN urls
  ELSE LET u == StrOr(Head(ev), "url", "")
       IN IF Truthy(u) /\ \A i \in 1..Len(urls) : ~SameValueZero(urls[i], u)
          THEN CollectUrls(Append(urls, u), Tail(ev))
          ELSE CollectUrls(urls, Tail(ev))

RECURSIVE CollectAll(_, _)
\* The outer forEach over the findings.
CollectAll(urls, m) ==
  IF m = <<>> THEN urls
  ELSE CollectAll(CollectUrls(urls, Head(m).evidence), Tail(m))

\* Array.prototype.slice(0, n): the items before index n, an n below zero
\* counting from the end.
Slice0(s, n) ==
  LET end == IF n < 0 THEN Len(s) + n ELSE n
  IN SubSeq(s, 1, IF end < 0 THEN 0 ELSE IF end < Len(s) THEN end ELSE Len(s))

topSources(m, n) == Slice0(CollectAll(<<>>, m), n)

(***************************************************************************)
(* handler: the synchronous pieces                                         *)
(***************************************************************************)

\* const body = req.body || (await req.json(), or {} when that throws). The
\* request record has a field body when the platform parsed one, and a field
\* json when req.json() resolves (to that value).
BodyOf(r) ==
  IF Has(r, "body") /\ Truthy(r.body) THEN r.body
  ELSE IF "json" \in DOMAIN r THEN r.json
  ELSE EmptyObject

\* XUrlOf without the trim.
XUrlOfUntrimmed(r) == StrOr(BodyOf(r), "x_url", "")

\* const xUrl = (body?.x_url || "").trim()
XUrlOf(r) == Trim(StrOr(BodyOf(r), "x_url", ""))

\* What line 195 throws, when it does.
XUrlOfError(r) ==
  IF TrimThrows(BodyOf(r), "x_url")
  THEN {"((intermediate value) || \"\").trim is not a function"}
  ELSE {}

\* The number of links kept, and of the pages fetched: slice(0,3).
MaxLinks == 3

\* The k the handler hands to topSources.
TopK == 3

\* linkMatches.filter(u => !u.includes("/status/")).slice(0,3), then the Set.
ExtractLinks(linkMatches) ==
  Unique(<<>>, Slice0(SelectSeq(linkMatches, LAMBDA u : ~Includes(u, "/status/")),
                      MaxLinks))

\* Line 232: the known_unknowns of both results, each once.
KnownUnknowns(grokRes, gptRes) ==
  Unique(<<>>, Iterate(ListOr(gptRes, "known_unknowns"))
               \o Iterate(IF Truthy(grokRes) THEN ListOr(grokRes, "known_unknowns")
                           ELSE <<>>))

\* What line 232 throws, when it does: the spread of what is no list.
KnownUnknownsError(grokRes, gptRes) ==
  IF ~Iterable(ListOr(gptRes, "known_unknowns"))
  THEN {"(gpt.known_unknowns || []) is not iterable"}
  ELSE IF Truthy(grokRes) /\ ~Iterable(ListOr(grokRes, "known_unknowns"))
  THEN {"((grok && grok.known_unknowns) || []) is not iterable"}
  ELSE {}

\* Line 220 up to the last `||`: the case_id a result gives, Null when
\* neither gives one and the handler makes one up, a string.
GivenCaseId(grokRes, gptRes) ==
  StrOr(gptRes, "case_id",
        IF Truthy(grokRes) THEN StrOr(grokRes, "case_id", Null) ELSE Null)

RECURSIVE ToStringThrows(_)
\* Whether `${v}` throws. An object is converted by its toString, and a
\* property toString of an object made by JSON.parse is no function and
\* hides Object.prototype's, while valueOf gives no primitive; an array is
\* converted by joining its items, null as "" and the others converted.
ToStringThrows(v) ==
  CASE TypeOf(v) = "object" -> Has(v, "toString")
    [] TypeOf(v) = "array"  ->
         \E i \in 1..Len(v) : TypeOf(v[i]) # "null" /\ ToStringThrows(v[i])
    [] OTHER -> FALSE

\* What lines 220-225 throw, when they do: the read of gpt.case_id when gpt
\* is null, and the case_id in the templates.
CaseIdError(grokRes, gptRes) ==
  IF TypeOf(gptRes) = "null"
  THEN {"Cannot read properties of null (reading 'case_id')"}
  ELSE IF ToStringThrows(GivenCaseId(grokRes, gptRes))
  THEN {"Cannot convert object to primitive value"}
  ELSE {}

\* The body of the catch block's 422 response, for the thrown message.
FallbackBody(message) ==
  [error          |-> IF message # "" THEN message ELSE "Internal error",
   verdict        |-> "Inconclusive",
   known_unknowns |-> <<"Failed to fetch sources or model output invalid.">>]

(***************************************************************************)
(* State                                                                   *)
(***************************************************************************)

VARIABLES
  pc,              \* position of the run
  req,             \* the request
  grokKey,         \* whether GROK_API_KEY is set
  extracted_links, \* handler: the links taken from the tweet text
  page_snapshots,  \* handler: the snapshots fetched so far
  gpt,             \* the required provider's result, Null before it
  grok,            \* the optional provider's result, Null without one
  merged,          \* mergeFindings' result
  verdict,         \* deriveVerdict's result
  confidence,      \* confidenceOf's result, in units of 1/10000
  sources,         \* topSources' result
  k,               \* topSources' second argument
  responses,       \* the responses sent, in order
  calls,           \* the number of network calls made, by kind
  thrown,          \* the model clients whose call has thrown
  list,            \* dedupeEvidence's argument
  out              \* dedupeEvidence's result

vars == <<pc, req, grokKey, extracted_links, page_snapshots, gpt, grok, merged,
          verdict, confidence, sources, k, responses, calls, thrown, list,
          out>>

handlerVars == <<req, grokKey, extracted_links, page_snapshots, responses, calls,
                 thrown>>
mergeVars   == <<gpt, grok, merged, verdict, confidence, sources, k>>
dedupeVars  == <<list, out>>

NoCalls == [fetch |-> 0, openai |-> 0, grok |-> 0]

\* The values of the variables a specification does not use.
IdleHandler ==
  /\ req = [method |-> "POST"]
  /\ grokKey = FALSE
  /\ extracted_links = <<>>
  /\ page_snapshots = <<>>
  /\ responses = <<>>
  /\ calls = NoCalls
  /\ thrown = {}

IdleMerge ==
  /\ gpt = Null
  /\ grok = Null
  /\ merged = <<>>
  /\ verdict = ""
  /\ confidence = 0
  /\ sources = <<>>
  /\ k = TopK

IdleDedupe ==
  /\ list = <<>>
  /\ out = <<>>

\* All sequences over S of length at most n.
SeqsUpTo(S, n) == UNION {[1..m -> S] : m \in 0..n}

(***************************************************************************)
(* Inputs: what a provider may answer                                      *)
(***************************************************************************)

eGov      == [quote |-> "q1", url |-> "https://a.gov/1", tier |-> "official"]
eReg      == [quote |-> "q2", url |-> "https://b.org/2", tier |-> "regulator"]
ePeer     == [quote |-> "q3", url |-> "https://c.edu/3", tier |-> "peerreview"]
eNews     == [quote |-> "q4", url |-> "https://d.com/4", tier |-> "news"]
\* eGov again up to white space, with another tier.
eGovAgain == [quote |-> "\\u2003q1 ", url |-> "https://a.gov/1\\ufeff", tier |-> "news"]
\* No tier, and the url of eNews under another quote.
eNoTier   == [quote |-> "q5", url |-> "https://d.com/4"]
\* No url.
eNoUrl    == [quote |-> "q6", tier |-> "official"]

\* Findings as a provider may write them: the status may be missing, and
\* so may the url and the tier of an evidence item; the second is on the
\* claim of the first, written between a no-break and an ideographic space.
FindingPool ==
  { [claim |-> "a", status |-> "Supported", evidence |-> <<eGov, eReg>>],
    [claim |-> "\\u00a0a\\u3000", evidence |-> <<eNews, eNoTier, eNoUrl, eGovAgain>>],
    [claim |-> "c", status |-> "Supported", evidence |-> <<ePeer, eNews>>],
    [claim |-> "d", status |-> "Rejected", evidence |-> <<eGov, eReg>>],
    [claim |-> "e", status |-> "Contested", evidence |-> <<eNews>>] }

\* The results a provider may return with at most n findings; one of them
\* has no findings property.
ProviderResults(n) ==
  {[findings |-> fs] : fs \in SeqsUpTo(FindingPool, n)} \cup {[case_id |-> "ET-1"]}

\* Results that are not what the prompt asks for. The first twelve make
\* the merge or the report throw; the others are put up with: a finding or
\* an evidence item that is a number or has no property counts as one
\* without claim, quote and url, a result that is an array as one without
\* findings, a falsy claim as no claim, a string as the list of its code
\* points, a status that is no string as one that is not Supported, a
\* tier that is no string as one that is not high.
OddResults ==
  << [known_unknowns |-> 5],
     [findings |-> <<Null>>],
     [findings |-> <<[claim |-> 5]>>],
     [findings |-> <<[claim |-> "a", evidence |-> <<[quote |-> 5]>>]>>],
     [findings |-> 5],
     [findings |-> <<[claim |-> "a", evidence |-> "x"]>>],
     [findings |-> <<[claim |-> "a", evidence |-> <<eGov, Null>>]>>],
     [findings |-> <<[claim |-> "a", evidence |-> <<[quote |-> "q1", url |-> TRUE]>>]>>],
     [findings |-> <<[claim |-> "a", status |-> "Supported", evidence |-> <<eGov, eReg>>]>>,
      known_unknowns |-> [n |-> 1]],
     [findings |-> EmptyObject, known_unknowns |-> EmptyObject],
     [findings |-> <<[claim |-> "a", status |-> "Supported", evidence |-> EmptyObject]>>],
     [findings |-> <<[claim |-> "a", status |-> "Supported", evidence |-> <<eGov, eReg>>]>>,
      case_id |-> [toString |-> Null]],
     [findings |-> <<5, EmptyObject, [null |-> TRUE]>>],
     <<[findings |-> 5]>>,
     [findings |-> <<[claim |-> 0, status |-> "Supported",
                      evidence |-> <<eGov, 5, eReg>>]>>],
     [findings |-> "ab", known_unknowns |-> "u\\u00e9u\\ud83d\\ude00\\u00e9"],
     [findings |-> <<[claim |-> "a", status |-> "Supported", evidence |-> <<eGov, eReg>>]>>,
      known_unknowns |-> <<"u1", [a |-> 1], "u2", "u1", [a |-> 1], Null, 1, Null, 1>>,
      case_id |-> <<Null, [valueOf |-> Null], 7>>],
     [findings |-> <<[claim |-> "\ta\n", status |-> 5,
                      evidence |-> <<eGov, [quote |-> "q1\n", url |-> "\thttps://a.gov/1"],
                                     [quote |-> "q7", url |-> "https://b.org/2", tier |-> 5],
                                     eReg>>]>>] >>

(***************************************************************************)
(* Specification of the handler                                            *)
(***************************************************************************)

MaxReplyFindings == 1

Methods == {"POST", "GET"}

\* What req.body may hold: nothing but an object with a string x_url is
\* asked for. A number as x_url makes the trim throw unless it is 0.
RequestBodies ==
  << EmptyObject, [other |-> "x"], [x_url |-> ""], [x_url |-> " \t\n"],
     [x_url |-> "\\u00a0"], [x_url |-> "\\u2028\t\\u3000 \\ufeff"],
     [x_url |-> " https://x.com/u/status/1\n"],
     [x_url |-> "\\u00a0https://x.com/u/status/3\\u2009"], [x_url |-> 5],
     [x_url |-> 0], "x_url" >>

\* What req.json() may resolve to when there is no req.body.
JsonBodies ==
  << [x_url |-> " "], [x_url |-> "https://x.com/u/status/2"], Null >>

\* What the link pattern finds in the text fetchTweetText returns: nothing
\* when the fetch fails (the text is then empty) or the text has no link.
TweetLinkMatches ==
  { <<>>,
    <<"https://a.gov/1">>,
    <<"https://x.com/u/status/1", "https://a.gov/1", "https://a.gov/1",
      "https://b.org/2", "https://c.edu/3">> }

\* The messages of the errors callOpenAI may throw: `OpenAI ${r.status}`, a
\* JSON.parse message, or none.
OpenAIErrors == {"OpenAI 500", ""}

Init ==
  /\ pc = "start"
  /\ \E m \in Methods :
       \/ \E i \in 1..Len(RequestBodies) : req = [method |-> m, body |-> RequestBodies[i]]
       \/ \E i \in 1..Len(JsonBodies) : req = [method |-> m, json |-> JsonBodies[i]]
       \/ req = [method |-> m]
  /\ grokKey \in BOOLEAN
  /\ extracted_links = <<>>
  /\ page_snapshots = <<>>
  /\ responses = <<>>
  /\ calls = NoCalls
  /\ thrown = {}
  /\ IdleMerge
  /\ IdleDedupe

\* res.status(code).json(body)
Respond(code, body) == responses' = Append(responses, [status |-> code, body |-> body])

\* Lines 191-193.
Reject405 ==
  /\ pc = "start"
  /\ req.method # "POST"
  /\ Respond(405, [error |-> "Use POST with JSON { x_url }"])
  /\ pc' = "done"
  /\ UNCHANGED <<req, grokKey, extracted_links, page_snapshots, calls, thrown,
                 mergeVars, dedupeVars>>

\* Lines 194-195, the trim throws: the catch block of lines 239-243.
XUrlThrows ==
  /\ pc = "start"
  /\ req.method = "POST"
  /\ XUrlOfError(req) # {}
  /\ \E message \in XUrlOfError(req) : Respond(422, FallbackBody(message))
  /\ pc' = "done"
  /\ UNCHANGED <<req, grokKey, extracted_links, page_snapshots, calls, thrown,
                 mergeVars, dedupeVars>>

\* Lines 194-196.
Reject400 ==
  /\ pc = "start"
  /\ req.method = "POST"
  /\ XUrlOfError(req) = {}
  /\ XUrlOf(req) = ""
  /\ Respond(400, [error |-> "x_url required"])
  /\ pc' = "done"
  /\ UNCHANGED <<req, grokKey, extracted_links, page_snapshots, calls, thrown,
                 mergeVars, dedupeVars>>

\* Lines 199-202: fetchTweetText never throws; the links are taken from its text.
FetchTweet ==
  /\ pc = "start"
  /\ req.method = "POST"
  /\ XUrlOfError(req) = {}
  /\ XUrlOf(req) # ""
  /\ \E lm \in TweetLinkMatches : extracted_links' = ExtractLinks(lm)
  /\ calls' = [calls EXCEPT !.fetch = @ + 1]
  /\ pc' = "pages"
  /\ UNCHANGED <<req, grokKey, page_snapshots, responses, thrown, mergeVars, dedupeVars>>

\* Lines 204-207, one round: fetchPageSnapshot never throws; a failed fetch
\* gives an empty title.
FetchPage ==
  /\ pc = "pages"
  /\ Len(page_snapshots) < Len(Slice0(extracted_links, MaxLinks))
  /\ \E title \in {"", "Title"} :
       page_snapshots' = Append(page_snapshots,
         [url |-> extracted_links[Len(page_snapshots) + 1], title |-> title])
  /\ calls' = [calls EXCEPT !.fetch = @ + 1]
  /\ UNCHANGED <<pc, req, grokKey, extracted_links, responses, thrown, mergeVars,
                 dedupeVars>>

\* Lines 215-243: the merge and the 200 response, or the catch block's 422
\* when the merge or the making of the report throws. Of the report's
\* fields, case_id, scores, tweet_text, report_url and hash are not modelled.
Finish(grokRes, gptRes) ==
  /\ LET early == mergeFindingsError(grokRes, gptRes)
         late  == FirstError(<<CaseIdError(grokRes, gptRes),
                               KnownUnknownsError(grokRes, gptRes)>>)
     IN IF early # {}
        THEN /\ UNCHANGED <<merged, verdict, confidence, sources>>
             /\ \E message \in early : Respond(422, FallbackBody(message))
        ELSE /\ merged' = mergeFindings(grokRes, gptRes)
             /\ verdict' = deriveVerdict(merged')
             /\ confidence' = confidenceOf(merged')
             /\ sources' = topSources(merged', TopK)
             /\ IF late # {}
                THEN \E message \in late : Respond(422, FallbackBody(message))
                ELSE Respond(200, [verdict |-> verdict', confidence |-> confidence',
                                   findings |-> merged', top_sources |-> sources',
                                   known_unknowns |-> KnownUnknowns(grokRes, gptRes)])
  /\ pc' = "done"

\* Line 212, callOpenAI returns; without GROK_API_KEY line 213 calls nothing
\* and the handler runs to its end.
CallOpenAIOk ==
  /\ pc = "pages"
  /\ Len(page_snapshots) = Len(Slice0(extracted_links, MaxLinks))
  /\ calls' = [calls EXCEPT !.openai = @ + 1]
  /\ \/ gpt' \in ProviderResults(MaxReplyFindings)
     \/ \E n \in 1..Len(OddResults) : gpt' = OddResults[n]
  /\ IF grokKey
     THEN /\ pc' = "grok"
          /\ UNCHANGED <<merged, verdict, confidence, sources, responses>>
     ELSE Finish(Null, gpt')
  /\ UNCHANGED <<req, grokKey, extracted_links, page_snapshots, thrown, grok, k,
                 dedupeVars>>

\* CallOpenAIThrows with the call wrapped in an empty catch, as callGrok's is.
CallOpenAIThrowsSwallowed ==
  /\ pc = "pages"
  /\ Len(page_snapshots) = Len(Slice0(extracted_links, MaxLinks))
  /\ calls' = [calls EXCEPT !.openai = @ + 1]
  /\ thrown' = thrown \cup {"openai"}
  /\ gpt' = Null
  /\ IF grokKey
     THEN /\ pc' = "grok"
          /\ UNCHANGED <<merged, verdict, confidence, sources, responses>>
     ELSE Finish(Null, Null)
  /\ UNCHANGED <<req, grokKey, extracted_links, page_snapshots, grok, k, dedupeVars>>

\* Line 212, callOpenAI throws: the catch block of lines 239-243.
CallOpenAIThrows ==
  /\ pc = "pages"
  /\ Len(page_snapshots) = Len(Slice0(extracted_links, MaxLinks))
  /\ calls' = [calls EXCEPT !.openai = @ + 1]
  /\ thrown' = thrown \cup {"openai"}
  /\ \E message \in OpenAIErrors : Respond(422, FallbackBody(message))
  /\ pc' = "done"
  /\ UNCHANGED <<req, grokKey, extracted_links, page_snapshots, mergeVars, dedupeVars>>

\* Line 213, callGrok returns.
CallGrokOk ==
  /\ pc = "grok"
  /\ calls' = [calls EXCEPT !.grok = @ + 1]
  /\ \/ grok' \in ProviderResults(MaxReplyFindings)
     \/ \E n \in 1..Len(OddResults) : grok' = OddResults[n]
  /\ Finish(grok', gpt)
  /\ UNCHANGED <<req, grokKey, extracted_links, page_snapshots, thrown, gpt, k,
                 dedupeVars>>

\* Line 213, callGrok throws: the empty catch leaves grok null.
CallGrokThrows ==
  /\ pc = "grok"
  /\ calls' = [calls EXCEPT !.grok = @ + 1]
  /\ thrown' = thrown \cup {"grok"}
  /\ grok' = Null
  /\ Finish(Null, gpt)
  /\ UNCHANGED <<req, grokKey, extracted_links, page_snapshots, gpt, k, dedupeVars>>

Next ==
  \/ Reject405
  \/ XUrlThrows
  \/ Reject400
  \/ FetchTweet
  \/ FetchPage
  \/ CallOpenAIOk
  \/ CallOpenAIThrows
  \/ CallGrokOk
  \/ CallGrokThrows

Spec == Init /\ [][Next]_vars

(***************************************************************************)
(* Specification of the merge on its own: lines 215-218 of the handler     *)
(***************************************************************************)

MaxFindings == 2

InitMerge ==
  /\ pc = "merge"
  /\ \/ gpt \in ProviderResults(MaxFindings)
     \/ gpt = Null
     \/ \E n \in 1..Len(OddResults) : gpt = OddResults[n]
  /\ \/ grok \in ProviderResults(MaxFindings)
     \/ grok = Null
     \/ \E n \in 1..Len(OddResults) : grok = OddResults[n]
  /\ merged = <<>>
  /\ verdict = ""
  /\ confidence = 0
  /\ sources = <<>>
  /\ k = TopK
  /\ IdleHandler
  /\ IdleDedupe

\* Lines 215-218; when mergeFindings throws nothing is computed.
Merge ==
  /\ pc = "merge"
  /\ IF mergeFindingsError(grok, gpt) # {}
     THEN /\ UNCHANGED <<merged, verdict, confidence, sources>>
          /\ pc' = "thrown"
     ELSE /\ merged' = mergeFindings(grok, gpt)
          /\ verdict' = deriveVerdict(merged')
          /\ confidence' = confidenceOf(merged')
          /\ sources' = topSources(merged', k)
          /\ pc' = "merged"
  /\ UNCHANGED <<gpt, grok, k, handlerVars, dedupeVars>>

NextMerge == Merge

SpecMerge == InitMerge /\ [][NextMerge]_vars

(***************************************************************************)
(* Specification of topSources on its own, for every k                     *)
(***************************************************************************)

MaxSrcFindings == 1
MaxK == 3

InitSources ==
  /\ pc = "sources"
  /\ gpt \in ProviderResults(MaxSrcFindings)
  /\ grok \in ProviderResults(MaxSrcFindings) \/ grok = Null
  /\ merged = mergeFindings(grok, gpt)
  /\ k \in (0 - MaxK)..MaxK
  /\ verdict = ""
  /\ confidence = 0
  /\ sources = <<>>
  /\ IdleHandler
  /\ IdleDedupe

TopSources ==
  /\ pc = "sources"
  /\ sources' = topSources(merged, k)
  /\ pc' = "sourced"
  /\ UNCHANGED <<gpt, grok, merged, verdict, confidence, k, handlerVars, dedupeVars>>

NextSources == TopSources

SpecSources == InitSources /\ [][NextSources]_vars

(***************************************************************************)
(* Specification of dedupeEvidence on its own                              *)
(***************************************************************************)

MaxList == 3

DQuotes == {"a", "a|b", "\\u00a0a "}
DUrls   == {"c", "b|c", "c\\u3000"}

\* Evidence items as a provider may write them: any field may be missing.
DedupePool ==
       {[quote |-> q, url |-> u, tier |-> "official"] : q \in DQuotes, u \in DUrls}
  \cup {[quote |-> "a", url |-> "c"], [quote |-> "a", url |-> "c", tier |-> "news"],
        [url |-> "c", tier |-> "news"], [quote |-> "a", tier |-> "news"]}

\* Lists with an item that is no object, or whose quote, url or tier is
\* no string: the first four make dedupeEvidence throw; a number, an
\* array and an object without quote and url are taken as an item with
\* neither, a falsy quote as no quote, and white space of any kind is
\* trimmed.
OddLists ==
  << <<Null>>,
     <<[quote |-> 5]>>,
     <<[quote |-> "a", url |-> "c"], [quote |-> "a", url |-> 5]>>,
     <<[quote |-> "a", url |-> "c"], [quote |-> "a", url |-> "c"], Null>>,
     <<5, [quote |-> 0, url |-> "c"], [url |-> "c", quote |-> FALSE]>>,
     <<[null |-> TRUE], EmptyObject, <<"a">>>>,
     <<[quote |-> "a\t", url |-> "c\n"], [quote |-> "a", url |-> "c"],
       [quote |-> "\r\f\\ufeffa\\u00a0", url |-> "\\u1680\\u000bc", tier |-> 5],
       [quote |-> "\\u2003a\\u3000", url |-> "\\u2028c\\u2029\\u202f\\u205f"]>>,
     <<[quote |-> "a", url |-> "c", tier |-> [n |-> 1]], [quote |-> "a b", url |-> "c"],
       [quote |-> "a\tb", url |-> "c", tier |-> 0]>> >>

InitDedupe ==
  /\ pc = "dedupe"
  /\ \/ list \in SeqsUpTo(DedupePool, MaxList)
     \/ \E n \in 1..Len(OddLists) : list = OddLists[n]
  /\ out = <<>>
  /\ IdleHandler
  /\ IdleMerge

\* A call of dedupeEvidence, which returns or throws.
Dedupe ==
  /\ pc = "dedupe"
  /\ IF dedupeEvidenceError(list) # {}
     THEN out' = out /\ pc' = "thrown"
     ELSE out' = dedupeEvidence(list) /\ pc' = "deduped"
  /\ UNCHANGED <<list, handlerVars, mergeVars>>

NextDedupe == Dedupe

SpecDedupe == InitDedupe /\ [][NextDedupe]_vars

(***************************************************************************)
(* Helpers of the properties                                               *)
(***************************************************************************)

\* The n-th smallest member of a set of integers.
Nth(S, n) == CHOOSE i \in S : Cardinality({j \in S : j <= i}) = n

\* The members of a sequence.
Range(f) == {f[i] : i \in DOMAIN f}

\* Two values are the same value, of whatever types they are.
SameValue(x, y) == ToString(x) = ToString(y)

\* The findings a provider result reports; none for null.
ReportedBy(r) == IF ~Truthy(r) THEN <<>> ELSE Iterate(ListOr(r, "findings"))

\* The claim texts a sequence of findings is about.
ClaimsOf(fs) == {Trim(StrOr(fs[i], "claim", "")) : i \in 1..Len(fs)}

\* The trimmed claim text of a reported finding.
ClaimOf(f) == Trim(StrOr(f, "claim", ""))

\* The status a finding reports as written, "" when it reports none.
WrittenStatus(f) == IF Has(f, "status") THEN f.status ELSE ""

\* The findings the two providers report on claim c.
ReportedOn(c) ==
  SelectSeq(ReportedBy(grok) \o ReportedBy(gpt), LAMBDA f : ClaimOf(f) = c)

\* The set of the statuses reported for claim c is exactly {Supported}.
OnlySupportedReported(c) ==
  /\ ReportedOn(c) # <<>>
  /\ \A i \in 1..Len(ReportedOn(c)) :
       SameValue(WrittenStatus(ReportedOn(c)[i]), "Supported")

\* The status the branch table of the specification gives.
TableStatus(onlySupported, high) ==
  CASE onlySupported /\ high >= 2 -> "Supported"
    [] ~(onlySupported /\ high >= 2) /\ high >= 1 -> "Contested"
    [] OTHER -> "Rejected"

\* The tier is official, regulator or peerreview.
HighTier(tier) ==
  \E t \in {"official", "regulator", "peerreview"} : SameValue(tier, t)

Priority(st) == IF st = "Supported" THEN 0 ELSE IF st = "Contested" THEN 1 ELSE 2

(***************************************************************************)
(* Properties of mergeFindings                                             *)
(***************************************************************************)

\* C1: mergeFindings emits one finding per claim group, and its status is
\* the branch table's for (statuses reported for the claim, number of its
\* deduplicated evidence items of a high tier): Supported iff the statuses
\* are exactly {Supported} and the count is at least 2, else Contested iff
\* the count is at least 1, else Rejected.
C1_StatusBranchTable ==
  pc = "merged" =>
    /\ {merged[i].claim : i \in 1..Len(merged)}
         = ClaimsOf(ReportedBy(grok) \o ReportedBy(gpt))
    /\ \A i, j \in 1..Len(merged) : merged[i].claim = merged[j].claim => i = j
    /\ \A i \in 1..Len(merged) :
         LET high == Cardinality({n \in 1..Len(merged[i].evidence) :
                       HighTier(merged[i].evidence[n].tier)})
         IN /\ merged[i].status
                 = TableStatus(OnlySupportedReported(merged[i].claim), high)
            /\ high = 0 => merged[i].status = "Rejected"

\* C1's case: both providers report on one claim, written with other white
\* space around it, one of them Supported, the statuses differ, and two
\* high-tier items do not make the claim Supported.
C1_Witness ==
  /\ pc = "merged"
  /\ TypeOf(grok) # "null"
  /\ \E i \in 1..Len(merged) :
       /\ merged[i].status = "Contested"
       /\ Len(ReportedOn(merged[i].claim)) = 2
       /\ SameValue(WrittenStatus(ReportedOn(merged[i].claim)[1]), "Supported")
       /\ ~SameValue(WrittenStatus(ReportedOn(merged[i].claim)[2]), "Supported")
       /\ ~SameValue(ReportedOn(merged[i].claim)[1].claim,
                     ReportedOn(merged[i].claim)[2].claim)
       /\ Len(merged[i].evidence) >= 3
  /\ \E i \in 1..Len(merged) : merged[i].status = "Supported"

\* C2: the list mergeFindings returns is sorted by status priority
\* (Supported, Contested, Rejected), and among equal statuses by descending
\* number of evidence items.
C2_Sorted ==
  pc = "merged" =>
    \A i \in 1..(Len(merged) - 1) :
      \/ Priority(merged[i].status) < Priority(merged[i + 1].status)
      \/ /\ merged[i].status = merged[i + 1].status
         /\ Len(merged[i].evidence) >= Len(merged[i + 1].evidence)

\* C2's case: without a second provider, the claim reported first ends last,
\* behind a finding of the same status with more evidence.
C2_Witness ==
  /\ pc = "merged"
  /\ TypeOf(grok) = "null"
  /\ Len(merged) >= 2
  /\ ClaimOf(ReportedBy(gpt)[1]) = merged[Len(merged)].claim
  /\ merged[Len(merged) - 1].status = merged[Len(merged)].status
  /\ Len(merged[Len(merged) - 1].evidence) > Len(merged[Len(merged)].evidence)

\* The findings of r on claim c, in r's order.
FindingsOn(r, c) == SelectSeq(ReportedBy(r), LAMBDA f : ClaimOf(f) = c)

\* The statuses r reports for claim c, as written.
StatusesOn(r, c) ==
  [i \in 1..Len(FindingsOn(r, c)) |-> WrittenStatus(FindingsOn(r, c)[i])]

RECURSIVE EvidenceOf(_)
\* The evidence lists of a sequence of findings, one after the other.
EvidenceOf(fs) ==
  IF fs = <<>> THEN <<>> ELSE ListOr(Head(fs), "evidence") \o EvidenceOf(Tail(fs))

\* Every item of the sequence s is an item of the sequence t.
Within(s, t) == \A i \in 1..Len(s) : \E j \in 1..Len(t) : SameValue(s[i], t[j])

\* Two results report the same set of claims, with the same statuses and
\* the same evidence list for each claim.
SameReports(a, b) ==
  /\ TypeOf(a) # "null"
  /\ TypeOf(b) # "null"
  /\ \A c \in ClaimsOf(ReportedBy(a) \o ReportedBy(b)) :
       /\ FindingsOn(a, c) # <<>>
       /\ FindingsOn(b, c) # <<>>
       /\ Within(StatusesOn(a, c), StatusesOn(b, c))
       /\ Within(StatusesOn(b, c), StatusesOn(a, c))
       /\ SameValue(EvidenceOf(FindingsOn(a, c)), EvidenceOf(FindingsOn(b, c)))

\* The position of claim c in the merged list m.
PositionOf(m, c) == CHOOSE i \in 1..Len(m) : m[i].claim = c

\* Two merged lists hold the same findings, in the same order wherever the
\* sort tells two findings apart.
SameUpToTies(m1, m2) ==
  /\ Len(m1) = Len(m2)
  /\ \A i \in 1..Len(m1) : \E j \in 1..Len(m2) : SameValue(m1[i], m2[j])
  /\ \A i, j \in 1..Len(m1) :
       (/\ i < j
        /\ \/ m1[i].status # m1[j].status
           \/ Len(m1[i].evidence) # Len(m1[j].evidence))
       => PositionOf(m2, m1[i].claim) < PositionOf(m2, m1[j].claim)

\* No two findings of m have the same status and number of evidence items.
NoTies(m) ==
  \A i, j \in 1..Len(m) :
    (m[i].status = m[j].status /\ Len(m[i].evidence) = Len(m[j].evidence)) => i = j

\* C5 as claimed: when the two providers report the same set of claims with
\* the same status and the same evidence for each claim, mergeFindings gives
\* the same merged findings whichever provider is first, in the same order
\* wherever the sort tells two findings apart, and the verdict, the
\* confidence and the set of top sources are the same.
C5_OrderInsensitive ==
  (pc = "merged" /\ SameReports(grok, gpt)) =>
    LET swapped == mergeFindings(gpt, grok)
    IN /\ SameUpToTies(merged, swapped)
       /\ verdict = deriveVerdict(swapped)
       /\ confidence = confidenceOf(swapped)
       /\ Range(sources) = Range(topSources(swapped, k))

\* C5 amended: as claimed for the merged findings, the verdict and the
\* confidence; the set of top sources is the same when no two merged
\* findings tie in the sort or the findings hold at most k distinct URLs.
C5_OrderInsensitiveUpToTies ==
  (pc = "merged" /\ SameReports(grok, gpt)) =>
    LET swapped == mergeFindings(gpt, grok)
    IN /\ SameUpToTies(merged, swapped)
       /\ verdict = deriveVerdict(swapped)
       /\ confidence = confidenceOf(swapped)
       /\ (NoTies(merged) \/ Len(topSources(merged, k + 1)) <= k)
            => Range(sources) = Range(topSources(swapped, k))

\* C5's case: the two providers report the same two or more claims in
\* different orders, and the sort has to reorder them.
C5_Witness ==
  /\ pc = "merged"
  /\ SameReports(grok, gpt)
  /\ ~SameValue(ReportedBy(grok), ReportedBy(gpt))
  /\ Len(merged) >= 2
  /\ merged[1].status # merged[2].status

(***************************************************************************)
(* Properties of deriveVerdict, confidenceOf and topSources                *)
(***************************************************************************)

\* C4: the verdict is "Supported claims with safety basis" when some merged
\* finding is Supported; else "Inconclusive" when every finding is Rejected,
\* the empty list included; else "Mixed evidence; further review needed".
C4_VerdictRules ==
  pc = "merged" =>
    LET statuses == {merged[i].status : i \in 1..Len(merged)}
    IN /\ "Supported" \in statuses => verdict = "Supported claims with safety basis"
       /\ ("Supported" \notin statuses /\ statuses \subseteq {"Rejected"})
            => verdict = "Inconclusive"
       /\ ("Supported" \notin statuses /\ ~(statuses \subseteq {"Rejected"}))
            => verdict = "Mixed evidence; further review needed"
       /\ merged = <<>> => verdict = "Inconclusive"

\* C4's case: a Supported finding beside a Rejected one.
C4_Witness ==
  /\ pc = "merged"
  /\ verdict = "Supported claims with safety basis"
  /\ \E i \in 1..Len(merged) : merged[i].status = "Rejected"
  /\ \E i \in 1..Len(merged) : merged[i].status = "Contested"

\* C10: in units of 1/10000, the confidence lies in 0..9500 and is
\* (9000*sup - 2000*con)/t rounded to the nearest unit and clamped, for
\* t = max(number of findings, 1) and sup, con the numbers of Supported and
\* Contested findings.
C10_ConfidenceRange ==
  pc = "merged" =>
    LET t   == IF merged = <<>> THEN 1 ELSE Len(merged)
        sup == Cardinality({i \in 1..Len(merged) : merged[i].status = "Supported"})
        con == Cardinality({i \in 1..Len(merged) : merged[i].status = "Contested"})
        raw == 9000 * sup - 2000 * con
    IN /\ confidence \in 0..9500
       /\ raw <= 0 => confidence = 0
       /\ raw >= 9500 * t => confidence = 9500
       /\ (0 < raw /\ raw < 9500 * t) =>
            /\ 2 * (confidence * t - raw) <= t
            /\ 2 * (raw - confidence * t) <= t

\* C10's case: three findings, one Supported and two Contested: 0.1667, the
\* quotient 5000/3 rounded up.
C10_Witness ==
  /\ pc = "merged"
  /\ Len(merged) = 3
  /\ confidence = 1667

\* The urls of the evidence of m, in the order topSources visits them.
RECURSIVE VisitedUrls(_)
VisitedUrls(m) ==
  IF m = <<>> THEN <<>>
  ELSE [i \in 1..Len(m[1].evidence) |-> m[1].evidence[i].url] \o VisitedUrls(Tail(m))

\* The URLs among the visited urls: an item without url has the url "".
UrlsOf(m) == SelectSeq(VisitedUrls(m), LAMBDA u : u # "")

\* The first n distinct items of a sequence, in order of first occurrence.
FirstDistinct(urls, n) ==
  LET firsts == {i \in 1..Len(urls) : \A j \in 1..(i - 1) : urls[j] # urls[i]}
      len    == IF n < Cardinality(firsts) THEN n ELSE Cardinality(firsts)
  IN [i \in 1..len |-> urls[Nth(firsts, i)]]

\* C9: for k >= 0, topSources(m, k) has at most k items, none twice, and is
\* the first k distinct URLs met in the findings' evidence, findings in list
\* order and each finding's evidence in order; an evidence item without url
\* has no URL to meet.
C9_FirstKDistinct ==
  (pc = "sourced" /\ k >= 0) =>
    /\ Len(sources) <= k
    /\ \A i, j \in 1..Len(sources) : sources[i] = sources[j] => i = j
    /\ sources = FirstDistinct(UrlsOf(merged), k)

\* C9's case: more distinct URLs than k, one of them met twice and then an
\* item without url before the k-th is found.
C9_Witness ==
  /\ pc = "sourced"
  /\ k >= 2
  /\ Len(sources) = k
  /\ Cardinality(Range(UrlsOf(merged))) > k
  /\ \E i, j, e, n \in 1..Len(VisitedUrls(merged)) :
       /\ i < j
       /\ j < e
       /\ e < n
       /\ VisitedUrls(merged)[i] = VisitedUrls(merged)[j]
       /\ VisitedUrls(merged)[j] # ""
       /\ VisitedUrls(merged)[e] = ""
       /\ VisitedUrls(merged)[n] = sources[Len(sources)]
       /\ \A m \in 1..(n - 1) : VisitedUrls(merged)[m] # sources[Len(sources)]

(***************************************************************************)
(* Properties of dedupeEvidence                                            *)
(***************************************************************************)

\* The (trimmed quote, trimmed url) pair of an evidence item.
PairOf(e) == <<Trim(StrOr(e, "quote", "")), Trim(StrOr(e, "url", ""))>>

\* C3: the output of dedupeEvidence holds one item per distinct (trimmed
\* quote, trimmed url) pair of the input, in order of first occurrence, with
\* a missing tier replaced by other: no item is dropped whose pair differs
\* from every earlier item's pair.
C3_PairIdentity ==
  pc = "deduped" =>
    LET firsts == {i \in 1..Len(list) :
                     \A j \in 1..(i - 1) : PairOf(list[j]) # PairOf(list[i])}
    IN /\ Len(out) = Cardinality(firsts)
       /\ \A n \in 1..Len(out) :
            LET e == list[Nth(firsts, n)]
            IN SameValue(out[n], [quote |-> PairOf(e)[1], url |-> PairOf(e)[2],
                                   tier  |-> StrOr(e, "tier", "other")])

(***************************************************************************)
(* Properties of the handler                                               *)
(***************************************************************************)

\* The request has no x_url, or one that is empty once trimmed: a string
\* of nothing but white space.
NoXUrl ==
  LET body == BodyOf(req)
  IN \/ ~Has(body, "x_url")
     \/ /\ TypeOf(body.x_url) = "string"
        /\ \A i \in 1..Len(CodePoints(body.x_url)) :
             CodePoints(body.x_url)[i] \in WhiteSpace

\* C6: a request without x_url (missing, or empty once trimmed) is answered
\* 400 with an error field, a request that is not a POST is answered 405,
\* and on such a request nothing is ever fetched and no model client is
\* ever called.
C6_RejectedWithoutCalls ==
  (req.method # "POST" \/ NoXUrl) =>
    /\ calls = [fetch |-> 0, openai |-> 0, grok |-> 0]
    /\ pc \in {"start", "done"}
    /\ pc = "done" =>
         /\ Len(responses) = 1
         /\ responses[1].status = IF req.method # "POST" THEN 405 ELSE 400
         /\ "error" \in DOMAIN responses[1].body

\* C6's case: a POST whose x_url holds only white space, a no-break space
\* or an ideographic space of it, has been answered 400.
C6_Witness ==
  /\ pc = "done"
  /\ req.method = "POST"
  /\ Has(BodyOf(req), "x_url")
  /\ TypeOf(BodyOf(req).x_url) = "string"
  /\ \/ Includes(BodyOf(req).x_url, "\\u00a0")
     \/ Includes(BodyOf(req).x_url, "\\u3000")
  /\ responses[1].status = 400

\* The body of a response has the fallback shape: an error message, the
\* verdict Inconclusive and a known_unknowns list.
IsFallback(body) ==
  /\ {"error", "verdict", "known_unknowns"} \subseteq DOMAIN body
  /\ body.verdict = "Inconclusive"
  /\ body.error # ""
  /\ Len(body.known_unknowns) >= 1

\* C7: once callOpenAI has thrown, the optional client is never called, no
\* 200 is sent, and the one response is a 422 or 500 with an error field,
\* verdict Inconclusive and a known_unknowns list; and every response the
\* catch block has sent, whatever was thrown, has that shape.
C7_RequiredFailureIsFatal ==
  /\ "openai" \in thrown =>
       /\ calls.grok = 0
       /\ pc = "done"
       /\ Len(responses) = 1
       /\ responses[1].status \in {422, 500}
       /\ IsFallback(responses[1].body)
  /\ \A i \in 1..Len(responses) :
       responses[i].status \notin {200, 400, 405} => IsFallback(responses[i].body)

\* C7's case: callOpenAI has thrown without a message, after the pages were
\* fetched, with the optional client enabled.
C7_Witness ==
  /\ "openai" \in thrown
  /\ grokKey
  /\ calls.fetch >= 3
  /\ responses[1].body.error = "Internal error"

\* The property p of o, where o has it, is of type t.
Typed(o, p, t) == Has(o, p) => TypeOf(o[p]) = t

\* A finding as the prompt asks for it: an object whose claim is a string
\* and whose evidence is a list, where it has them. Nothing is asked of the
\* items of the list here.
StructuredFinding(f) ==
  /\ TypeOf(f) = "object"
  /\ Typed(f, "claim", "string")
  /\ Typed(f, "status", "string")
  /\ Typed(f, "evidence", "array")

\* The required client has succeeded: its result is a structured result
\* object, whose findings are a list of findings, whose known_unknowns are
\* a list and whose case_id is a string, where it has them.
StructuredResult(r) ==
  /\ TypeOf(r) = "object"
  /\ Typed(r, "findings", "array")
  /\ Has(r, "findings") =>
       \A i \in 1..Len(r.findings) : StructuredFinding(r.findings[i])
  /\ Typed(r, "known_unknowns", "array")
  /\ Typed(r, "case_id", "string")

\* An evidence item dedupeEvidence takes: not null, and its quote and url
\* strings unless they count as false.
CoercedEvidence(e) ==
  /\ TypeOf(e) # "null"
  /\ TypeOf(StrOr(e, "quote", "")) = "string"
  /\ TypeOf(StrOr(e, "url", "")) = "string"

\* Every evidence item of the structured result r is one dedupeEvidence
\* takes.
CoercedEvidenceOnly(r) ==
  \A i \in 1..Len(ListOr(r, "findings")) :
    \A j \in 1..Len(ListOr(r.findings[i], "evidence")) :
      CoercedEvidence(r.findings[i].evidence[j])

\* The one response is a 200 whose findings, verdict, confidence and
\* top_sources are those of the required client's result merged alone.
AnsweredFromRequiredAlone ==
  /\ pc = "done"
  /\ Len(responses) = 1
  /\ responses[1].status = 200
  /\ LET alone == mergeFindings(Null, gpt)
     IN /\ responses[1].body.findings = alone
        /\ responses[1].body.verdict = deriveVerdict(alone)
        /\ responses[1].body.confidence = confidenceOf(alone)
        /\ responses[1].body.top_sources = topSources(alone, 3)

\* The required client has returned, and the optional client is disabled
\* or has thrown.
RequiredAlone ==
  /\ pc \in {"grok", "done"}
  /\ "openai" \notin thrown
  /\ calls.openai = 1
  /\ ~grokKey \/ "grok" \in thrown

\* C8: when the required client has succeeded and the optional client is
\* disabled or has thrown, the one response is a 200 whose findings,
\* verdict, confidence and top_sources are those of the required client's
\* result merged alone.
C8_OptionalFailureIgnored ==
  (RequiredAlone /\ StructuredResult(gpt)) => AnsweredFromRequiredAlone

\* C8 where the code keeps to it: as C8, for the results whose evidence
\* items are not null and have strings for quote and url.
C8_OptionalFailureIgnoredOnCoercedEvidence ==
  (RequiredAlone /\ StructuredResult(gpt) /\ CoercedEvidenceOnly(gpt))
    => AnsweredFromRequiredAlone

\* C8's case: callGrok has thrown and the 200 response carries a Supported
\* finding of the required client.
C8_Witness ==
  /\ pc = "done"
  /\ "grok" \in thrown
  /\ StructuredResult(gpt)
  /\ responses[1].status = 200
  /\ \E i \in 1..Len(responses[1].body.findings) :
       responses[1].body.findings[i].status = "Supported"

\* C8's failure: the required client has succeeded, the optional one is
\* disabled, and the response is the 422 fallback.
C8_Failure ==
  /\ pc = "done"
  /\ RequiredAlone
  /\ StructuredResult(gpt)
  /\ responses[1].status = 422

====
